---- MODULE Spec2Model ----
(***************************************************************************)
(* Validation plane of the ramparts proxy: the validation cache with its   *)
(* request coalescer (proxy/src/cache.rs), the Javelin Guard client        *)
(* (proxy/src/javelin.rs), the validation service                          *)
(* (proxy/src/validation_service.rs) and the REST and MCP handlers that    *)
(* call it (proxy/src/proxy.rs, proxy/src/mcp_server.rs).                  *)
(*                                                                         *)
(* Every handler invocation is a task.  A task walks through the steps of  *)
(* ValidationCache::get_or_compute one at a time, so that the steps of     *)
(* different tasks interleave as they do on the multi-threaded runtime     *)
(* started by #[tokio::main].                                              *)
(***************************************************************************)
EXTENDS Integers, Sequences, FiniteSets, TLC

\* ------------------------------------------------------------------ bounds
NumTasks == 2
MaxTime == 2
MaxClears == 1
MaxCalls == 3
\* CacheConfig.ttl and CacheConfig.max_entries, in clock ticks and entries.
ttl == 2
max_entries == 2

Tasks == 1..NumTasks
NoTask == 0

\* ------------------------------------------------------------------ values
\* A JSON value is abstracted to its "id" member ("absent" when it has none)
\* and the rest of its content.  Requests have content "call", upstream
\* responses have content "result".
Ids == {"1", "absent"}
Requests == [id : Ids, content : {"call"}]
Responses == [id : Ids, content : {"result"}]
Values == Requests \cup Responses

\* Option<T> is a sequence of length at most one.
None == <<>>
Some(x) == <<x>>

\* ---- text
UpperCase == "ABCDEFGHIJKLMNOPQRSTUVWXYZ"
LowerCase == "abcdefghijklmnopqrstuvwxyz"

lower_char(c) ==
    IF \E i \in 1..Len(UpperCase) : SubSeq(UpperCase, i, i) = c
        THEN LET i == CHOOSE i \in 1..Len(UpperCase) : SubSeq(UpperCase, i, i) = c
             IN  SubSeq(LowerCase, i, i)
        ELSE c

RECURSIVE to_lowercase(_)
\* str::to_lowercase, character by character.
to_lowercase(text) ==
    IF Len(text) = 0 THEN ""
    ELSE lower_char(SubSeq(text, 1, 1)) \o to_lowercase(SubSeq(text, 2, Len(text)))

\* str::starts_with
starts_with(text, prefix) ==
    /\ Len(text) >= Len(prefix)
    /\ SubSeq(text, 1, Len(prefix)) = prefix

\* str::contains
contains(text, pattern) ==
    \E i \in 1..(Len(text) - Len(pattern) + 1) :
        SubSeq(text, i, i + Len(pattern) - 1) = pattern

\* serde_json renders Option<&Value>::None as null.
get_id(value) == IF value.id = "absent" THEN "null" ELSE value.id

\* The key is a digest (or an echo) of the serialization of the whole value,
\* its id included; the digest is taken to be collision free.
generate_cache_key(value) == <<"req_", value.id, value.content>>
Keys == {generate_cache_key(v) : v \in Values}

\* ------------------------------------------------------------ Guard client
\* What one call of the Guard API can come to.  The bodies stand for
\* {"safe":true,"confidence":0.92}, {"safe":false,"confidence":0.95} and a
\* 2xx body of no known shape.
GuardOutcomes ==
    { [status |-> "2xx", body |-> "safe_true"],
      [status |-> "2xx", body |-> "safe_false"],
      [status |-> "2xx", body |-> "unknown"],
      [status |-> "non2xx", body |-> "boom"],
      [status |-> "transport_error", body |-> ""] }

Ok(entry) == [ok |-> TRUE, entry |-> entry, err |-> ""]
Err(e) == [ok |-> FALSE, entry |-> [allowed |-> FALSE, reason |-> None,
                                    confidence |-> None, timestamp |-> 0],
           err |-> e]

\* serde_json::Value, as far as the gateway looks at it. The text of a
\* string is in s; the text of a "content" member is the sequence of the
\* UTF-8 widths of its codepoints.
NoFields == [k \in {} |-> 0]
JNull == [kind |-> "null", s |-> "", fields |-> NoFields]
JNumber == [kind |-> "number", s |-> "7", fields |-> NoFields]
JString(text) == [kind |-> "string", s |-> text, fields |-> NoFields]
JObject(members) == [kind |-> "object", s |-> "", fields |-> members]

\* Value::get(key): a member of an object, None on anything else.
value_get(v, key) ==
    IF v.kind = "object" /\ key \in DOMAIN v.fields
        THEN Some(v.fields[key]) ELSE None

\* .and_then(|v| v.as_str())
as_str(opt) ==
    IF opt # None /\ opt[1].kind = "string" THEN Some(opt[1].s) ELSE None

JBool(b) ==
    [kind |-> "bool", s |-> IF b THEN "true" ELSE "false", fields |-> NoFields]
\* A number, in hundredths.
JNum(n) == [kind |-> "number", s |-> n, fields |-> NoFields]

\* .and_then(|v| v.as_bool()), as_f64, as_object
as_bool(opt) ==
    IF opt # None /\ opt[1].kind = "bool" THEN Some(opt[1].s = "true") ELSE None
as_f64(opt) ==
    IF opt # None /\ opt[1].kind = "number" THEN Some(opt[1].s) ELSE None
as_object(opt) ==
    IF opt # None /\ opt[1].kind = "object" THEN Some(opt[1].fields) ELSE None

\* ---- the body of a Guard answer
\* The members of a JSON object, in key order.
BodyKeyOrder ==
    <<"allowed", "categories", "category_scores", "confidence", "pi", "reason",
      "result", "safe", "tox">>

Digits == "0123456789"
digit(d) == SubSeq(Digits, d + 1, d + 1)
decimal(n) == digit(n \div 100) \o "." \o digit((n \div 10) % 10) \o digit(n % 10)

RECURSIVE json_text(_), json_members(_, _, _)
\* The text of a JSON value.
json_text(v) ==
    CASE v.kind = "null" -> "null"
      [] v.kind = "bool" -> v.s
      [] v.kind = "number" -> decimal(v.s)
      [] v.kind = "string" -> "\"" \o v.s \o "\""
      [] OTHER -> "{" \o json_members(v, 1, TRUE) \o "}"

json_members(v, i, first) ==
    IF i > Len(BodyKeyOrder) THEN ""
    ELSE IF BodyKeyOrder[i] \notin DOMAIN v.fields
        THEN json_members(v, i + 1, first)
    ELSE (IF first THEN "" ELSE ",")
            \o "\"" \o BodyKeyOrder[i] \o "\":"
            \o json_text(v.fields[BodyKeyOrder[i]])
            \o json_members(v, i + 1, FALSE)

\* A response text, with what serde_json::from_str::<Value> makes of it.
JsonBody(v) == [text |-> json_text(v), json |-> Some(v)]
PlainBody(text) == [text |-> text, json |-> None]

is_category_threat_BoolOnly(value) ==
    IF as_bool(Some(value)) # None THEN as_bool(Some(value))[1] ELSE FALSE

is_category_threat(value) ==
    CASE as_str(Some(value)) = Some("true") -> TRUE
      [] as_str(Some(value)) = Some("false") -> FALSE
      [] OTHER -> IF as_bool(Some(value)) # None THEN as_bool(Some(value))[1]
                  ELSE FALSE

Max(a, b) == IF a >= b THEN a ELSE b

RECURSIVE join(_, _)
join(names, sep) ==
    IF names = <<>> THEN ""
    ELSE IF Len(names) = 1 THEN names[1]
    ELSE names[1] \o sep \o join(Tail(names), sep)

RECURSIVE categories_loop(_, _, _, _)
\* The loop over the categories, in key order.
categories_loop(categories_obj, scores, i, acc) ==
    IF i > Len(BodyKeyOrder) THEN acc
    ELSE IF BodyKeyOrder[i] \notin DOMAIN categories_obj
        THEN categories_loop(categories_obj, scores, i + 1, acc)
    ELSE LET category == BodyKeyOrder[i]
             threat == is_category_threat(categories_obj[category])
             score == IF scores # None /\ category \in DOMAIN scores[1]
                         THEN as_f64(Some(scores[1][category])) ELSE None
         IN  categories_loop(categories_obj, scores, i + 1,
                [is_threat |-> acc.is_threat \/ threat,
                 threat_reasons |-> IF threat
                                       THEN Append(acc.threat_reasons, category)
                                       ELSE acc.threat_reasons,
                 max_score |-> IF score # None
                                  THEN Max(acc.max_score, score[1])
                                  ELSE acc.max_score])

\* Format 1: categories and scores.
categorical_form(json_response) ==
    LET categories == value_get(json_response, "categories")
        category_scores == value_get(json_response, "category_scores")
        start == [is_threat |-> FALSE, threat_reasons |-> <<>>, max_score |-> 0]
        acc == IF as_object(categories) # None
                  THEN categories_loop(as_object(categories)[1],
                                       as_object(category_scores), 1, start)
                  ELSE start
    IN  [allowed |-> ~acc.is_threat,
         reason |-> IF acc.threat_reasons = <<>>
                       THEN Some("No threats detected")
                       ELSE Some("Threats detected: " \o join(acc.threat_reasons, ", ")),
         confidence |-> Some(acc.max_score)]

\* Format 2: {"safe": true/false, "confidence": 0.9, "reason": "..."}
safe_form(json_response) ==
    [allowed |-> as_bool(value_get(json_response, "safe"))[1],
     reason |-> as_str(value_get(json_response, "reason")),
     confidence |-> as_f64(value_get(json_response, "confidence"))]

\* Format 2: {"allowed": true/false, ...}
allowed_form(json_response) ==
    [allowed |-> as_bool(value_get(json_response, "allowed"))[1],
     reason |-> as_str(value_get(json_response, "reason")),
     confidence |-> as_f64(value_get(json_response, "confidence"))]

\* Format 3: {"result": "safe"/"unsafe", ...}
result_form(json_response) ==
    LET result == as_str(value_get(json_response, "result"))[1]
    IN  [allowed |-> \/ contains(to_lowercase(result), "safe")
                     \/ contains(to_lowercase(result), "allow"),
         reason |-> Some("Guard result: " \o result),
         confidence |-> as_f64(value_get(json_response, "confidence"))]

bool_form(simple_bool) ==
    [allowed |-> simple_bool,
     reason |-> Some("Boolean response from Guard API"),
     confidence |-> Some(IF simple_bool THEN 90 ELSE 10)]

text_allowed(response_text) ==
    LET response_lower == to_lowercase(response_text)
    IN  \/ contains(response_lower, "safe")
        \/ contains(response_lower, "allow")
        \/ contains(response_lower, "ok")
        \/ contains(response_lower, "approved")

text_blocked(response_text) ==
    LET response_lower == to_lowercase(response_text)
    IN  \/ contains(response_lower, "unsafe")
        \/ contains(response_lower, "block")
        \/ contains(response_lower, "deny")
        \/ contains(response_lower, "reject")

text_form(response_text) ==
    [allowed |-> text_allowed(response_text),
     reason |-> Some("Guard text response: " \o response_text),
     confidence |-> Some(70)]

unknown_form(response_text) ==
    [allowed |-> TRUE,
     reason |-> Some("Unknown Guard response: " \o response_text),
     confidence |-> Some(50)]

\* The verdict parse_guard_response reads from a response text.
parse_response_text(body) ==
    LET json_response == body.json
        has(key, as(_)) ==
            /\ json_response # None
            /\ as(value_get(json_response[1], key)) # None
        any(opt) == opt
    IN  IF has("categories", any) THEN categorical_form(json_response[1])
        ELSE IF has("safe", as_bool) THEN safe_form(json_response[1])
        ELSE IF has("allowed", as_bool) THEN allowed_form(json_response[1])
        ELSE IF has("result", as_str) THEN result_form(json_response[1])
        ELSE IF json_response # None /\ json_response[1].kind = "bool"
            THEN bool_form(json_response[1].s = "true")
        ELSE IF text_allowed(body.text) \/ text_blocked(body.text)
            THEN text_form(body.text)
        ELSE unknown_form(body.text)

\* The response texts behind the body names of GuardOutcomes.
BodyOf(name) ==
    CASE name = "safe_true" ->
            JsonBody(JObject("safe" :> JBool(TRUE) @@ "confidence" :> JNum(92)))
      [] name = "safe_false" ->
            JsonBody(JObject("safe" :> JBool(FALSE) @@ "confidence" :> JNum(95)))
      [] OTHER -> PlainBody("???")

\* Confidences are in hundredths.
parse_guard_response(body, t) ==
    LET entry == parse_response_text(BodyOf(body))
    IN  Ok([allowed |-> entry.allowed, reason |-> entry.reason,
            confidence |-> entry.confidence, timestamp |-> t])

validate_request_uncached(outcome, t) ==
    CASE outcome.status = "transport_error" ->
           Err("Failed to send request to Javelin Guard API")
      [] outcome.status = "non2xx" ->
           Ok([allowed |-> TRUE, reason |-> Some("Guard API error"),
               confidence |-> None, timestamp |-> t])
      [] OTHER -> parse_guard_response(outcome.body, t)

\* JavelinClient::validate_request keeps only `allowed` of the cache result.
javelin_validate_request(result) ==
    IF result.ok THEN [ok |-> TRUE, is_valid |-> result.entry.allowed, err |-> ""]
    ELSE [ok |-> FALSE, is_valid |-> FALSE, err |-> result.err]

\* ------------------------------------------------------- validation service
\* A reason is a sequence of text pieces, so that its prefix can be read.
ServiceOnError_Propagate(e, fo) ==
    [ok |-> FALSE, allowed |-> FALSE, reason |-> <<e>>, confidence |-> None]

ServiceOnError_AlwaysOpen(e, fo) ==
    [ok |-> TRUE, allowed |-> TRUE,
     reason |-> <<"Validation service unavailable, failing open: ", e>>,
     confidence |-> Some(0)]

ServiceOnError(e, fo) ==
    [ok |-> TRUE, allowed |-> fo,
     reason |-> IF fo
                THEN <<"Validation service unavailable, failing open: ", e>>
                ELSE <<"Validation service unavailable, failing closed: ", e>>,
     confidence |-> Some(0)]

service_validate_request(jr, fo) ==
    IF jr.ok
    THEN [ok |-> TRUE, allowed |-> jr.is_valid,
          reason |-> IF jr.is_valid
                     THEN <<"Request approved by Javelin Guardrails">>
                     ELSE <<"Request blocked by Javelin Guardrails">>,
          confidence |-> Some(IF jr.is_valid THEN 90 ELSE 10)]
    ELSE ServiceOnError(jr.err, fo)

\* str::replace("Request", "Response") on the reasons the service produces.
replace_Request(reason) ==
    CASE reason = <<"Request approved by Javelin Guardrails">> ->
           <<"Response approved by Javelin Guardrails">>
      [] reason = <<"Request blocked by Javelin Guardrails">> ->
           <<"Response blocked by Javelin Guardrails">>
      [] OTHER -> reason

service_validate_response(jr, fo) ==
    LET r == service_validate_request(jr, fo)
    IN  IF r.ok THEN [r EXCEPT !.reason = replace_Request(@)] ELSE r

\* What a handler hands back to its client.
Response(type, id, code, message, allowed, reason, confidence) ==
    [type |-> type, id |-> id, code |-> code, message |-> message,
     allowed |-> allowed, reason |-> reason, confidence |-> confidence]

create_blocked_response(original, vr) ==
    Response("envelope", get_id(original), -32600,
             "Request blocked by Javelin Guardrails", FALSE, vr.reason,
             vr.confidence)

create_error_response(original, msg) ==
    Response("envelope", get_id(original), -32603,
             "Internal validation error", FALSE, <<msg>>, None)

\* ------------------------------------------------------------------- state
VARIABLES
    now,                  \* tokio::time::Instant::now(), in ticks
    cache,                \* memory_cache: key -> Option of stored entry
    pending,              \* pending_requests: key -> creator of the slot's channel
    mailbox,              \* what each broadcast receiver has been sent
    task,                 \* the handler invocations
    fail_open,            \* config.javelin.fail_open
    enable_deduplication, \* CacheConfig.enable_deduplication (a public field)
    clearPc,              \* position of the caller of ValidationCache::clear
    clears,               \* completed calls of clear
    emitted,              \* the handler that hands its response out in this step
    calls,                \* Guard invocations per key since a new one was last due
    answered,             \* some Guard call has got an HTTP answer
    call                  \* a function of the validation plane taken alone:
                          \* its argument and, once it has returned, its result

vars == <<now, cache, pending, mailbox, task, fail_open, enable_deduplication,
          clearPc, clears, emitted, calls, answered, call>>

Kinds == {"rest_validate", "rest_proxy", "mcp_validate", "mcp_proxy"}

NoResponse == Response("none", "", 0, "", FALSE, None, None)

IdleTask ==
    [kind |-> "rest_validate", req |-> [id |-> "absent", content |-> "call"],
     val |-> [id |-> "absent", content |-> "call"], tool_ok |-> FALSE,
     phase |-> "request", pc |-> "idle", res |-> Err(""), sub |-> NoTask,
     verdict |-> None, rverdict |-> None, out |-> NoResponse, log |-> <<>>]

KeyOf_OneSlot(t) == generate_cache_key([id |-> "1", content |-> "call"])

KeyOf(t) == generate_cache_key(task[t].val)

\* ------------------------------------------------------------ cache store
\* moka's time_to_live: an entry lives for ttl after its insertion.
MokaLive(stored, t) == t < stored.inserted + ttl

\* entry.timestamp.elapsed() < self.config.ttl
Fresh(entry, t) == t - entry.timestamp < ttl

Present(c) == {k \in Keys : c[k] # None}

\* moka insert under max_capacity: a new key entering a full cache costs one
\* entry, the victim (which the admission policy may make the new key itself).
CacheInsert(c, k, entry, t, victim) ==
    LET stored == Some([entry |-> entry, inserted |-> t])
    IN  IF k \in Present(c) \/ Cardinality(Present(c)) < max_entries
        THEN [c EXCEPT ![k] = stored]
        ELSE [[c EXCEPT ![k] = stored] EXCEPT ![victim] = None]

Victims(c, k) ==
    IF k \in Present(c) \/ Cardinality(Present(c)) < max_entries
    THEN {k}
    ELSE Present(c) \cup {k}

\* ------------------------------------------------------- pending-slot map
\* DashMap::get returns a Ref, which keeps the read lock of the key's shard;
\* the subscriber binds it for the whole `if let` block, the wait for the
\* broadcast included.  insert, remove and clear need the write lock.  Each
\* key is taken to have a shard of its own (keys sharing a shard only block
\* more).
RefHeld(k) ==
    \E s \in Tasks : task[s].pc = "recv" /\ generate_cache_key(task[s].val) = k

\* The Sender clones of the channel that task c created for key k: the one
\* in the map and the one c keeps until get_or_compute returns.
SenderAlive(c, k) ==
    \/ pending[k] = c
    \/ /\ task[c].pc \in {"guard_wait", "remove", "set", "send"}
       /\ generate_cache_key(task[c].val) = k

Receivers(c, k) ==
    {s \in Tasks : task[s].pc = "recv" /\ task[s].sub = c
                   /\ generate_cache_key(task[s].val) = k}

\* ---------------------------------------------------------------- handlers
\* The handler's last step: the response goes out.
Finish(tk, out, events) ==
    [tk EXCEPT !.pc = "done", !.out = out, !.log = @ \o events,
               !.sub = NoTask]

\* proxy.rs validate_request, the POST /validate handler.
rest_validate(tk, vr) ==
    IF vr.ok
    THEN Finish([tk EXCEPT !.verdict = Some(vr)],
                Response("validate_json", "", 200, "", vr.allowed, vr.reason,
                         vr.confidence), <<"request_verdict">>)
    ELSE Finish(tk, Response("http_500", "", 500, "", FALSE, None, None),
                <<"validation_err">>)

proxy_on_request_ForwardAnyway(tk, vr) ==
    [tk EXCEPT !.verdict = Some(vr), !.pc = "upstream_wait",
               !.log = @ \o <<"request_verdict", "upstream_send">>]

\* proxy_mcp_request up to the upstream send, with validate_and_handle inlined.
proxy_on_request(tk, vr) ==
    IF ~vr.ok
    THEN Finish(tk, create_error_response(tk.req, "Validation service error"),
                <<"validation_err">>)
    ELSE IF vr.allowed
    THEN [tk EXCEPT !.verdict = Some(vr), !.pc = "upstream_wait",
                    !.log = @ \o <<"request_verdict", "upstream_send">>]
    ELSE Finish([tk EXCEPT !.verdict = Some(vr)],
                create_blocked_response(tk.req, vr), <<"request_verdict">>)

UpstreamBody(response) ==
    Response("upstream_body", get_id(response), 200, "", TRUE, None, None)

proxy_on_response_PassDenied(tk, vr) ==
    Finish([tk EXCEPT !.rverdict = Some(vr)], UpstreamBody(tk.val),
           <<"response_verdict">>)

\* proxy_mcp_request after response validation; tk.val is the upstream response.
proxy_on_response(tk, vr) ==
    IF ~vr.ok
    THEN Finish(tk, UpstreamBody(tk.val), <<"validation_err">>)
    ELSE IF vr.allowed
    THEN Finish([tk EXCEPT !.rverdict = Some(vr)], UpstreamBody(tk.val),
                <<"response_verdict">>)
    ELSE Finish([tk EXCEPT !.rverdict = Some(vr)],
                create_blocked_response(tk.val, vr), <<"response_verdict">>)

proxy_on_upstream_ValidateAnyway(tk, up) ==
    [tk EXCEPT !.phase = "response", !.val = up.response, !.pc = "cache_get",
               !.res = Err(""),
               !.log = @ \o <<IF up.ok THEN "upstream_ok" ELSE "upstream_err",
                              "response_validation">>]

\* forward_to_target has answered: a parsed response, or an error.
proxy_on_upstream(tk, up) ==
    IF up.ok
    THEN [tk EXCEPT !.phase = "response", !.val = up.response,
                    !.pc = "cache_get", !.res = Err(""),
                    !.log = @ \o <<"upstream_ok", "response_validation">>]
    ELSE Finish(tk, create_error_response(tk.req, "Failed to forward request"),
                <<"upstream_err">>)

mcp_validate_request_FailClosed(jr, fo) == jr.ok /\ jr.is_valid

\* GuardedMcpServer::validate_request
mcp_validate_request(jr, fo) == IF jr.ok THEN jr.is_valid ELSE fo

McpVerdict(is_valid) ==
    [ok |-> TRUE, allowed |-> is_valid, reason |-> None, confidence |-> None]

\* call_tool, the "validate" arm.
mcp_validate_tool(tk, is_valid) ==
    Finish([tk EXCEPT !.verdict = Some(McpVerdict(is_valid))],
           Response("mcp_validate", "", 0, "", is_valid, None, None),
           <<"request_verdict">>)

\* call_tool, the "proxy" arm; tk.tool_ok tells whether the request value
\* deserializes as a CallToolRequestParam.
mcp_proxy_tool(tk, is_valid) ==
    LET tk1 == [tk EXCEPT !.verdict = Some(McpVerdict(is_valid))]
    IN  IF ~is_valid
        THEN Finish(tk1, Response("mcp_error_content", "", 0,
                                  "Request blocked by Javelin Guardrails",
                                  FALSE, None, None), <<"request_verdict">>)
        ELSE IF ~tk.tool_ok
        THEN Finish(tk1, Response("mcp_invalid_params", "", -32602,
                                  "Invalid tool request", FALSE, None, None),
                    <<"request_verdict">>)
        ELSE Finish(tk1, Response("mcp_proxied", "", 0, "", TRUE, None, None),
                    <<"request_verdict", "proxy_to_target">>)

\* get_or_compute returns `result` to JavelinClient::validate_request, which
\* returns to the service or the MCP server, which returns to the handler.
\* The handler keeps in `res` what get_or_compute returned.
Continue(tk, result, fo) ==
    LET jr == javelin_validate_request(result)
        tk0 == [tk EXCEPT !.res = result]
    IN  CASE tk.kind = "rest_validate" ->
               rest_validate(tk0, service_validate_request(jr, fo))
          [] tk.kind = "rest_proxy" /\ tk.phase = "request" ->
               proxy_on_request(tk0, service_validate_request(jr, fo))
          [] tk.kind = "rest_proxy" /\ tk.phase = "response" ->
               proxy_on_response(tk0, service_validate_response(jr, fo))
          [] tk.kind = "mcp_validate" ->
               mcp_validate_tool(tk0, mcp_validate_request(jr, fo))
          [] OTHER ->
               mcp_proxy_tool(tk0, mcp_validate_request(jr, fo))

\* ----------------------------------------------------------------- actions
\* No function is under evaluation.
NoCall == [fn |-> "none", arg |-> None, ret |-> None]

\* The proxy right after MCPProxy::with_config: an empty cache, no slot, no
\* request.
Constructed ==
    /\ now = 0
    /\ cache = [k \in Keys |-> None]
    /\ pending = [k \in Keys |-> NoTask]
    /\ mailbox = [t \in Tasks |-> None]
    /\ task = [t \in Tasks |-> IdleTask]
    /\ fail_open \in BOOLEAN
    /\ enable_deduplication \in BOOLEAN
    /\ clearPc = "idle"
    /\ clears = 0
    /\ emitted = IdleTask
    /\ calls = [k \in Keys |-> 0]
    /\ answered = FALSE

Init == Constructed /\ call = NoCall

Config == <<fail_open, enable_deduplication>>
Admin == <<clearPc, clears>>
Busy(t) == task[t].pc # "idle"
NoCalls == [k \in Keys |-> 0]

\* A handler that has handed its response out is ready for the next request;
\* what it handed out is looked at in `emitted`, in the step it leaves.
Settle(tk) == IF tk.pc = "done" THEN IdleTask ELSE tk
Emission(tk) == IF tk.pc = "done" THEN tk ELSE IdleTask

\* Task t moves to tk.
Move(t, tk) ==
    /\ task' = [task EXCEPT ![t] = Settle(tk)]
    /\ emitted' = Emission(tk)

\* A request arrives and its handler starts: the first thing each of the
\* four handlers does with it is the cache lookup of get_or_compute.
Start(t, kind, req, tool_ok) ==
    /\ task[t].pc = "idle"
    /\ Move(t, [IdleTask EXCEPT !.kind = kind, !.req = req, !.val = req,
                                !.tool_ok = tool_ok, !.pc = "cache_get"])
    /\ UNCHANGED <<call, now, cache, pending, mailbox, Config, Admin, calls,
                   answered>>

AfterMiss_AlwaysPending(tk, dedup) == [tk EXCEPT !.pc = "pending_get"]

\* After a miss: with deduplication the pending slots are consulted, without
\* it compute_fn is called at once.
AfterMiss(tk, dedup) ==
    IF dedup THEN [tk EXCEPT !.pc = "pending_get"]
    ELSE [tk EXCEPT !.pc = "guard_wait"]

Invoked(k) == [calls EXCEPT ![k] = IF @ < MaxCalls THEN @ + 1 ELSE @]

CallsAfterMiss(k, dedup) == IF dedup THEN calls ELSE Invoked(k)

\* ValidationCache::get up to its return or its invalidate.
CacheGet(t) ==
    LET k == KeyOf(t)
        stored == cache[k]
        hit == stored # None /\ Fresh(stored[1].entry, now)
    IN  /\ task[t].pc = "cache_get"
        /\ IF hit
           THEN /\ Move(t, Continue(task[t], Ok(stored[1].entry), fail_open))
                /\ calls' = calls
           ELSE IF stored # None
           THEN /\ Move(t, [task[t] EXCEPT !.pc = "invalidate"])
                /\ calls' = calls
           ELSE /\ Move(t, AfterMiss(task[t], enable_deduplication))
                /\ calls' = CallsAfterMiss(k, enable_deduplication)
        /\ UNCHANGED <<call, now, cache, pending, mailbox, Config, Admin,
                       answered>>

\* self.memory_cache.invalidate(&key) of an entry found stale, then the miss.
Invalidate(t) ==
    LET k == KeyOf(t)
    IN  /\ task[t].pc = "invalidate"
        /\ cache' = [cache EXCEPT ![k] = None]
        /\ Move(t, AfterMiss(task[t], enable_deduplication))
        /\ calls' = CallsAfterMiss(k, enable_deduplication)
        /\ UNCHANGED <<call, now, pending, mailbox, Config, Admin, answered>>

\* self.pending_requests.get(&key), and sender.subscribe() when a slot is there.
PendingGet(t) ==
    LET k == KeyOf(t)
    IN  /\ task[t].pc = "pending_get"
        /\ Move(t, IF pending[k] # NoTask
                   THEN [task[t] EXCEPT !.pc = "recv", !.sub = pending[k]]
                   ELSE [task[t] EXCEPT !.pc = "insert"])
        /\ UNCHANGED <<call, now, cache, pending, mailbox, Config, Admin, calls,
                       answered>>

\* receiver.recv() returns Ok(result).
RecvOk(t) ==
    /\ task[t].pc = "recv"
    /\ mailbox[t] # None
    /\ Move(t, Continue(task[t], Ok(mailbox[t][1]), fail_open))
    /\ mailbox' = [mailbox EXCEPT ![t] = None]
    /\ UNCHANGED <<call, now, cache, pending, Config, Admin, calls, answered>>

\* receiver.recv() returns Err: every Sender is gone and nothing was sent.
RecvErr(t) ==
    /\ task[t].pc = "recv"
    /\ mailbox[t] = None
    /\ ~SenderAlive(task[t].sub, KeyOf(t))
    /\ Move(t, [task[t] EXCEPT !.pc = "insert", !.sub = NoTask])
    /\ UNCHANGED <<call, now, cache, pending, mailbox, Config, Admin, calls,
                   answered>>

\* channel(1), self.pending_requests.insert(key, sender.clone()), and the
\* call of compute_fn, which sends the request to the Guard.
Insert(t) ==
    LET k == KeyOf(t)
    IN  /\ task[t].pc = "insert"
        /\ ~RefHeld(k)
        /\ pending' = [pending EXCEPT ![k] = t]
        /\ Move(t, [task[t] EXCEPT !.pc = "guard_wait"])
        /\ calls' = Invoked(k)
        /\ UNCHANGED <<call, now, cache, mailbox, Config, Admin, answered>>

OnComputeError_CacheFailOpen(c, k, t) ==
    [c EXCEPT ![k] = Some([entry |-> [allowed |-> TRUE, reason |-> None,
                                      confidence |-> None, timestamp |-> t],
                           inserted |-> t])]

\* What an Err from compute_fn does to the cache: nothing.
OnComputeError(c, k, t) == c

\* compute_fn().await is over: the Guard has answered or the transport failed.
\* Without deduplication an Err leaves get_or_compute here, through `?`.
GuardReturn(t, outcome) ==
    LET result == validate_request_uncached(outcome, now)
        k == KeyOf(t)
    IN  /\ task[t].pc = "guard_wait"
        /\ answered' = (answered \/ outcome.status # "transport_error")
        /\ calls' = IF result.ok THEN calls ELSE [calls EXCEPT ![k] = 0]
        /\ Move(t, IF enable_deduplication
                   THEN [task[t] EXCEPT !.pc = "remove", !.res = result]
                   ELSE IF result.ok
                   THEN [task[t] EXCEPT !.pc = "set", !.res = result]
                   ELSE Continue(task[t], result, fail_open))
        /\ cache' = IF ~enable_deduplication /\ ~result.ok
                    THEN OnComputeError(cache, k, now) ELSE cache
        /\ UNCHANGED <<call, now, pending, mailbox, Config, Admin>>

\* self.pending_requests.remove(&key), and the Err arm of the match.
Remove(t) ==
    LET k == KeyOf(t)
    IN  /\ task[t].pc = "remove"
        /\ ~RefHeld(k)
        /\ pending' = [pending EXCEPT ![k] = NoTask]
        /\ IF task[t].res.ok
           THEN /\ Move(t, [task[t] EXCEPT !.pc = "set"])
                /\ cache' = cache
           ELSE /\ Move(t, Continue(task[t], task[t].res, fail_open))
                /\ cache' = OnComputeError(cache, k, now)
        /\ UNCHANGED <<call, now, mailbox, Config, Admin, calls, answered>>

\* self.set(request, result).await, and the return when nothing is broadcast.
Set(t) ==
    LET k == KeyOf(t)
    IN  /\ task[t].pc = "set"
        /\ \E victim \in Victims(cache, k) :
              /\ cache' = CacheInsert(cache, k, task[t].res.entry, now, victim)
              /\ calls' = IF victim = k /\ k \in Present(cache')
                          THEN calls ELSE [calls EXCEPT ![victim] = 0]
        /\ Move(t, IF enable_deduplication
                   THEN [task[t] EXCEPT !.pc = "send"]
                   ELSE Continue(task[t], task[t].res, fail_open))
        /\ UNCHANGED <<call, now, pending, mailbox, Config, Admin, answered>>

\* sender.send(result) and Ok(result).
Send(t) ==
    LET k == KeyOf(t)
    IN  /\ task[t].pc = "send"
        /\ mailbox' = [s \in Tasks |->
                         IF s \in Receivers(t, k)
                         THEN Some(task[t].res.entry) ELSE mailbox[s]]
        /\ Move(t, Continue(task[t], task[t].res, fail_open))
        /\ UNCHANGED <<call, now, cache, pending, Config, Admin, calls,
                       answered>>

UpstreamResults ==
    {[ok |-> TRUE, response |-> r] : r \in Responses}
      \cup {[ok |-> FALSE, response |-> [id |-> "absent", content |-> "result"]]}

\* forward_to_target(...).await is over.
UpstreamReturn(t, up) ==
    /\ task[t].pc = "upstream_wait"
    /\ Move(t, proxy_on_upstream(task[t], up))
    /\ UNCHANGED <<call, now, cache, pending, mailbox, Config, Admin, calls,
                   answered>>

\* The places where a handler's future is suspended, and can be dropped.
SuspensionPoints ==
    {"cache_get", "invalidate", "recv", "guard_wait", "set", "upstream_wait"}

\* The inbound client disconnects: the handler's future is dropped, and with
\* it whatever it holds (the Ref, the Receiver, its Sender clone).
Cancel(t) ==
    /\ task[t].pc \in SuspensionPoints
    /\ Move(t, IdleTask)
    /\ mailbox' = [mailbox EXCEPT ![t] = None]
    /\ calls' = IF task[t].pc \in {"guard_wait", "set"}
                THEN [calls EXCEPT ![KeyOf(t)] = 0] ELSE calls
    /\ UNCHANGED <<call, now, cache, pending, Config, Admin, answered>>

\* ValidationCache::clear: self.memory_cache.invalidate_all()
ClearInvalidate ==
    /\ clearPc = "idle"
    /\ clears < MaxClears
    /\ cache' = [k \in Keys |-> None]
    /\ clearPc' = "invalidated"
    /\ calls' = NoCalls
    /\ emitted' = IdleTask
    /\ UNCHANGED <<call, now, pending, mailbox, task, Config, clears, answered>>

\* ValidationCache::clear: self.pending_requests.clear()
ClearPending ==
    /\ clearPc = "invalidated"
    /\ \A k \in Keys : ~RefHeld(k)
    /\ pending' = [k \in Keys |-> NoTask]
    /\ clearPc' = "idle"
    /\ clears' = clears + 1
    /\ calls' = NoCalls
    /\ emitted' = IdleTask
    /\ UNCHANGED <<call, now, cache, mailbox, task, Config, answered>>

\* Time passes; entries that reach their time_to_live leave the cache.  Time
\* is not counted while nothing carries a timestamp.
Tick ==
    /\ now < MaxTime
    /\ \/ Present(cache) # {}
       \/ \E t \in Tasks : task[t].res.ok
    /\ now' = now + 1
    /\ cache' = [k \in Keys |->
                   IF cache[k] # None /\ MokaLive(cache[k][1], now + 1)
                   THEN cache[k] ELSE None]
    /\ calls' = NoCalls
    /\ emitted' = IdleTask
    /\ UNCHANGED <<call, pending, mailbox, task, Config, Admin, answered>>

\* The requests of a burst are identical: they have one cache key.
BurstRequests == {r \in Requests : r.id = "1"}

\* The cache and its coalescer under concurrent identical POST /validate
\* requests, with time, clear() and disconnecting clients.
Next ==
    \/ \E t \in Tasks, req \in BurstRequests :
          Start(t, "rest_validate", req, FALSE)
    \/ \E t \in Tasks : CacheGet(t)
    \/ \E t \in Tasks : Invalidate(t)
    \/ \E t \in Tasks : PendingGet(t)
    \/ \E t \in Tasks : Insert(t)
    \/ \E t \in Tasks, outcome \in GuardOutcomes : GuardReturn(t, outcome)
    \/ \E t \in Tasks : Remove(t)
    \/ \E t \in Tasks : Set(t)
    \/ \E t \in Tasks : Send(t)
    \/ \E t \in Tasks : Cancel(t)
    \/ ClearInvalidate
    \/ ClearPending
    \/ Tick

Spec == Init /\ [][Next]_vars

\* The four handlers (POST /validate, POST /proxy/<target>, the MCP tools
\* validate and proxy) over the same cache, for clients that send one request
\* at a time, all within one time_to_live.
NextGateway ==
    \/ \E t \in Tasks, kind \in Kinds, req \in Requests, tool_ok \in BOOLEAN :
          /\ tool_ok => kind = "mcp_proxy"
          /\ \A s \in Tasks : ~Busy(s)
          /\ Start(t, kind, req, tool_ok)
    \/ \E t \in Tasks : CacheGet(t)
    \/ \E t \in Tasks : PendingGet(t)
    \/ \E t \in Tasks : Insert(t)
    \/ \E t \in Tasks, outcome \in GuardOutcomes : GuardReturn(t, outcome)
    \/ \E t \in Tasks : Remove(t)
    \/ \E t \in Tasks : Set(t)
    \/ \E t \in Tasks : Send(t)
    \/ \E t \in Tasks, up \in UpstreamResults : UpstreamReturn(t, up)

\* JavelinClient::new and with_config build the cache with
\* enable_deduplication: true; the handlers reach the cache through them.
InitGateway == Init /\ enable_deduplication

SpecGateway == InitGateway /\ [][NextGateway]_vars

\* ------------------------------------------------------------------ claims
\* What the cache hands to a reader in a step of ValidationCache::get.
Reading(t) == task[t].pc = "cache_get"
ReadKey(t) == generate_cache_key(task[t].val)

\* C1: with deduplication enabled, identical concurrent requests (one cache
\* key) cost at most one Guard invocation, as long as no new one is due (no
\* time has passed, nothing was cleared, no call failed or was abandoned).
C1_SingleFlight ==
    enable_deduplication => \A k \in Keys : calls[k] <= 1

\* C8: a cached verdict stays in the cache while it is younger than ttl unless
\* clear() removes it or the capacity bound evicts it; a read finds it exactly
\* when it is younger than ttl, a read of an older one is a miss that goes on
\* to the Guard, and no read returns a verdict of age >= ttl.
Retained(k) ==
    (cache[k] # None /\ Fresh(cache[k][1].entry, now') /\ cache'[k] = None)
        => \/ clearPc = "idle" /\ clearPc' = "invalidated"
           \/ \E t \in Tasks :
                 /\ task[t].pc = "set" /\ task'[t].pc # "set"
                 /\ ReadKey(t) # k

\* The read of t returns in this step (t is not dropped in the middle of it).
ReadReturns(t) ==
    /\ Reading(t)
    /\ task'[t] # task[t]
    /\ task'[t].pc = "idle" => emitted'.pc = "done"

ReadOutcome(t) ==
    ReadReturns(t) =>
        LET stored == cache[ReadKey(t)]
        IN  IF stored # None /\ now - stored[1].entry.timestamp < ttl
            THEN /\ emitted'.pc = "done"
                 /\ emitted'.res = Ok(stored[1].entry)
                 /\ calls' = calls
            ELSE /\ emitted'.pc # "done"
                 /\ task'[t].pc \in {"invalidate", "pending_get", "guard_wait"}

C8_TTL ==
    [][/\ \A k \in Keys : Retained(k)
       /\ \A t \in Tasks : ReadOutcome(t)]_vars

\* C9: when the Guard computation of get_or_compute fails, the step in which
\* get_or_compute returns leaves the cache as it was, with and without
\* deduplication, and what it returns is the error of the computation.
ErrorReturned == emitted'.pc = "done" /\ ~emitted'.res.ok

C9_ErrorsNotCached ==
    [][ErrorReturned =>
          /\ cache' = cache
          /\ emitted'.res = Err("Failed to send request to Javelin Guard API")
          /\ \A t \in Tasks :
                (task[t].pc = "remove" /\ task'[t].pc # "remove")
                    => emitted'.res = task[t].res]_vars

C9_Witness ==
    /\ emitted.pc = "done"
    /\ ~emitted.res.ok
    /\ enable_deduplication
    /\ \E k \in Keys : cache[k] # None

\* The handler invocations under way, and the one that has just answered.
Records == {task[t] : t \in Tasks} \cup {emitted}
InLog(e, log) == \E i \in 1..Len(log) : log[i] = e
FailingClosed == "Validation service unavailable, failing closed: "

\* C2: as long as every Guard call has failed in transport, every verdict of
\* the validation service (for requests and for upstream responses) has
\* allowed = fail_open and confidence 0.0.
C2_FailPolicy ==
    ~answered =>
        \A rec \in Records : \A v \in {rec.verdict, rec.rverdict} :
            (rec.kind \in {"rest_validate", "rest_proxy"} /\ v # None)
                => v[1].allowed = fail_open /\ v[1].confidence = Some(0)

C2_Witness ==
    /\ ~answered
    /\ ~fail_open
    /\ emitted.pc = "done"
    /\ emitted.kind = "rest_validate"
    /\ emitted.verdict # None
    /\ ~emitted.verdict[1].allowed
    /\ emitted.out.type = "validate_json"

\* C3: a request whose verdict is allowed = false is never forwarded: on
\* /proxy its handler never sends upstream and answers with the blocked
\* envelope, on the MCP proxy tool proxy_to_target is not called and the
\* result is an error content.
C3_DeniedNotForwarded ==
    \A rec \in Records :
        (rec.verdict # None /\ ~rec.verdict[1].allowed) =>
            /\ rec.kind = "rest_proxy" =>
                  /\ rec.pc = "done"
                  /\ ~InLog("upstream_send", rec.log)
                  /\ rec.out = create_blocked_response(rec.req, rec.verdict[1])
            /\ rec.kind = "mcp_proxy" =>
                  /\ rec.pc = "done"
                  /\ ~InLog("proxy_to_target", rec.log)
                  /\ rec.out.type = "mcp_error_content"

C3_Witness ==
    /\ emitted.pc = "done"
    /\ emitted.kind = "rest_proxy"
    /\ emitted.verdict # None
    /\ ~emitted.verdict[1].allowed
    /\ emitted.out.code = -32600

\* C4: when the Guard answers with a non-2xx status and fail_open = false, the
\* service verdict is allowed = false with a reason that starts with
\* "Validation service unavailable, failing closed:", and /proxy answers with
\* the -32600 blocked envelope that carries the id of the request.
GuardAnsweredNon2xx(rec) ==
    /\ rec.pc \in {"done", "upstream_wait"}
    /\ rec.phase = "request"
    /\ rec.res.ok
    /\ rec.res.entry.reason = Some("Guard API error")

C4_Non2xxFailsClosed ==
    \A rec \in Records :
        (~fail_open /\ GuardAnsweredNon2xx(rec)
           /\ rec.kind \in {"rest_validate", "rest_proxy"}) =>
            /\ rec.verdict # None
            /\ ~rec.verdict[1].allowed
            /\ rec.verdict[1].reason[1] = FailingClosed
            /\ rec.kind = "rest_proxy" =>
                  /\ rec.pc = "done"
                  /\ rec.out.type = "envelope"
                  /\ rec.out.code = -32600
                  /\ rec.out.id = get_id(rec.req)

\* C5: ValidationService::validate_request returns a verdict for every Guard
\* outcome, so no handler takes the Err branch of its caller: no HTTP 500
\* from /validate, no -32603 "Validation service error" envelope, no
\* "allowing response" on /proxy.
C5_ServiceNeverErrs ==
    \A rec \in Records :
        /\ ~InLog("validation_err", rec.log)
        /\ rec.out.type # "http_500"
        /\ (rec.pc = "done" /\ rec.kind = "rest_validate") => rec.verdict # None
        /\ (rec.pc = "done" /\ rec.kind = "rest_proxy")
              => rec.verdict # None
                 /\ (rec.phase = "response" => rec.rverdict # None)

C5_Witness ==
    /\ emitted.pc = "done"
    /\ emitted.kind = "rest_proxy"
    /\ emitted.phase = "response"
    /\ ~emitted.res.ok
    /\ emitted.rverdict # None

\* C6: within one proxied request the request verdict comes before the
\* upstream send, the upstream response comes before response validation, and
\* response validation follows an upstream success only, never an error.
ProxyLogs ==
    { <<>>,
      <<"request_verdict">>,
      <<"request_verdict", "upstream_send">>,
      <<"request_verdict", "upstream_send", "upstream_err">>,
      <<"request_verdict", "upstream_send", "upstream_ok",
        "response_validation">>,
      <<"request_verdict", "upstream_send", "upstream_ok",
        "response_validation", "response_verdict">> }

C6_ProxyOrder ==
    \A rec \in Records :
        rec.kind = "rest_proxy" =>
            /\ rec.log \in ProxyLogs
            /\ rec.pc = "upstream_wait" =>
                  rec.log = <<"request_verdict", "upstream_send">>
            /\ rec.phase = "response" =>
                  /\ InLog("upstream_ok", rec.log)
                  /\ rec.verdict # None
                  /\ rec.val \in Responses
            /\ (rec.phase = "request" /\ rec.pc \notin {"done", "upstream_wait"})
                  => rec.log = <<>>

C6_Witness ==
    /\ emitted.pc = "done"
    /\ emitted.kind = "rest_proxy"
    /\ Len(emitted.log) = 5

\* C7: every -32600 or -32603 envelope that /proxy answers with carries the id
\* of the client's request (null when it has none), the envelope for a blocked
\* upstream response included.
C7_IdPreserved ==
    (emitted.pc = "done" /\ emitted.kind = "rest_proxy"
       /\ emitted.out.type = "envelope")
        => emitted.out.id = get_id(emitted.req)

\* C10: /proxy returns the upstream body only when the verdict on the upstream
\* response is allowed; when it is denied, a fail-closed denial included, the
\* client gets the blocked envelope and not the body.
C10_ResponseGate ==
    (emitted.pc = "done" /\ emitted.kind = "rest_proxy") =>
        /\ emitted.out.type = "upstream_body" =>
              emitted.rverdict # None /\ emitted.rverdict[1].allowed
        /\ (emitted.rverdict # None /\ ~emitted.rverdict[1].allowed) =>
              /\ emitted.out.type = "envelope"
              /\ emitted.out.code = -32600
              /\ emitted.out.reason = emitted.rverdict[1].reason

C10_Witness ==
    /\ emitted.pc = "done"
    /\ emitted.kind = "rest_proxy"
    /\ emitted.rverdict # None
    /\ ~emitted.rverdict[1].allowed
    /\ emitted.rverdict[1].reason[1] = FailingClosed
    /\ emitted.out.type = "envelope"

\* --------------------------------------------------- validate_and_handle
\* The functions below are evaluated alone: the initial state holds the
\* argument, the one action holds the result.
Returned(fn) == call.fn = fn /\ call.ret # None

\* uuid::Uuid::new_v4().to_string(): two of the ids it can mint.
RequestIds == {"uuid-a", "uuid-b"}

\* ValidationResult: the verdict with the request_id and the timestamp that
\* ValidationService::validate_request gives it.
ValidationResult(vr, request_id, timestamp) ==
    [ok |-> vr.ok, allowed |-> vr.allowed, reason |-> vr.reason,
     confidence |-> vr.confidence, request_id |-> request_id,
     timestamp |-> timestamp]

\* The "data" member of the blocked envelope.
blocked_data(vr) ==
    [reason |-> vr.reason, confidence |-> vr.confidence,
     request_id |-> vr.request_id, timestamp |-> vr.timestamp,
     blocked_by |-> "ramparts-proxy"]

NoData ==
    [reason |-> <<>>, confidence |-> None, request_id |-> "", timestamp |-> 0,
     blocked_by |-> ""]

validate_and_handle_AdmitAll(request, vr) ==
    [ok |-> TRUE, verdict |-> vr, envelope |-> NoResponse, data |-> NoData]

\* ValidationService::validate_and_handle on the result vr of validate_request.
validate_and_handle(request, vr) ==
    IF vr.ok
    THEN IF vr.allowed
         THEN [ok |-> TRUE, verdict |-> vr, envelope |-> NoResponse,
               data |-> NoData]
         ELSE [ok |-> FALSE, verdict |-> vr,
               envelope |-> create_blocked_response(request, vr),
               data |-> blocked_data(vr)]
    ELSE [ok |-> FALSE, verdict |-> vr,
          envelope |-> create_error_response(request, "Validation service error"),
          data |-> NoData]

\* The verdict validate_request produces for the argument of the call.
ProducedVerdict(arg) ==
    ValidationResult(
        service_validate_request(
            javelin_validate_request(validate_request_uncached(arg.outcome, 0)),
            fail_open),
        arg.request_id, arg.timestamp)

HandleArgs ==
    [request : Requests, outcome : GuardOutcomes, request_id : RequestIds,
     timestamp : 0..MaxTime]

InitHandle ==
    /\ Constructed
    /\ call \in [fn : {"validate_and_handle"}, arg : HandleArgs, ret : {None}]

ValidateAndHandle ==
    /\ call.fn = "validate_and_handle"
    /\ call.ret = None
    /\ call' = [call EXCEPT !.ret = Some(validate_and_handle(
                                        call.arg.request,
                                        ProducedVerdict(call.arg)))]
    /\ UNCHANGED <<now, cache, pending, mailbox, task, Config, Admin, emitted,
                   calls, answered>>

SpecHandle == InitHandle /\ [][ValidateAndHandle]_vars

\* C11: validate_and_handle returns Ok(verdict) exactly when the verdict of
\* validate_request is allowed; otherwise it returns Err with the -32600
\* envelope built from that verdict, whose data carries the verdict's reason,
\* confidence, request_id and timestamp, and whose id is the request's.
C11_HandleFollowsVerdict ==
    Returned("validate_and_handle") =>
        LET r == call.ret[1]
            v == ProducedVerdict(call.arg)
        IN  /\ r.ok = v.allowed
            /\ r.ok => r.verdict = v
            /\ ~r.ok =>
                  /\ r.envelope.type = "envelope"
                  /\ r.envelope.code = -32600
                  /\ r.envelope.id = get_id(call.arg.request)
                  /\ r.data.reason = v.reason
                  /\ r.data.confidence = v.confidence
                  /\ r.data.request_id = v.request_id
                  /\ r.data.timestamp = v.timestamp

C11_Witness ==
    /\ Returned("validate_and_handle")
    /\ ~call.ret[1].ok
    /\ call.ret[1].data.request_id = "uuid-b"
    /\ call.ret[1].data.timestamp = 1
    /\ call.ret[1].envelope.code = -32600

\* C12: the service verdict carries the confidence of the Guard client's
\* verdict when that one has a confidence; 0.9 (allowed) and 0.1 (denied) stand
\* in only when it has none.
ClientVerdictKnown(rec) ==
    /\ rec.kind \in {"rest_validate", "rest_proxy"}
    /\ rec.phase = "request"
    /\ rec.pc \in {"done", "upstream_wait"}
    /\ rec.res.ok
    /\ rec.verdict # None

C12_ConfidencePreserved ==
    \A rec \in Records :
        ClientVerdictKnown(rec) =>
            rec.verdict[1].confidence =
                IF rec.res.entry.confidence # None
                THEN rec.res.entry.confidence
                ELSE Some(IF rec.verdict[1].allowed THEN 90 ELSE 10)

\* ProxyBehavior.cache_validations, at its default.  No code reads the field:
\* JavelinClient::with_config builds the cache whatever its value.
cache_validations == FALSE

\* C13: with cache_validations = false every validation bypasses the cache:
\* no read of the cache returns a stored verdict, so each validation of a
\* request goes to the Guard.
ServedFromCache(t) ==
    /\ ReadReturns(t)
    /\ emitted'.pc = "done"
    /\ emitted'.res.ok
    /\ calls' = calls

C13_CacheBypassed ==
    [][~cache_validations => \A t \in Tasks : ~ServedFromCache(t)]_vars

\* ------------------------------------------------------------ key sharing
\* The Guard of scenario S6: it answers every call with {"safe": true}.
SafeOutcomes == {o \in GuardOutcomes : o.body = "safe_true"}

\* Concurrent POST /validate requests that have the same params and may
\* differ in their JSON-RPC id, against that Guard.
NextSharing ==
    \/ \E t \in Tasks, req \in Requests : Start(t, "rest_validate", req, FALSE)
    \/ \E t \in Tasks : CacheGet(t)
    \/ \E t \in Tasks : PendingGet(t)
    \/ \E t \in Tasks : Insert(t)
    \/ \E t \in Tasks, outcome \in SafeOutcomes : GuardReturn(t, outcome)
    \/ \E t \in Tasks : Remove(t)
    \/ \E t \in Tasks : Set(t)
    \/ \E t \in Tasks : Send(t)

SpecSharing == InitGateway /\ [][NextSharing]_vars

\* Two values have the same params: they differ in their id at most.
SameParams(v, w) == v.content = w.content

RECURSIVE SumCalls(_)
SumCalls(S) ==
    IF S = {} THEN 0
    ELSE LET k == CHOOSE x \in S : TRUE IN calls[k] + SumCalls(S \ {k})

\* C14: requests with the same params have the same cache key, whatever their
\* JSON-RPC ids, so with deduplication concurrent requests with the same
\* params cost one Guard invocation together.
C14_KeySharing ==
    /\ \A t, u \in Tasks :
          (Busy(t) /\ Busy(u) /\ SameParams(task[t].req, task[u].req))
              => generate_cache_key(task[t].req) = generate_cache_key(task[u].req)
    /\ \A v \in Requests :
          SumCalls({generate_cache_key(w) :
                      w \in {x \in Requests : SameParams(v, x)}}) <= 1

\* ------------------------------------------------------ forwarded headers
HeaderNames ==
    {"authorization", "Authorization", "authorization-extra", "x-key", "X-Key",
     "xkey", "cookie", "content-type"}

HeaderValues == {"v1", "v2"}
MaxHeaders == 2

\* The inbound header lists: up to MaxHeaders name/value pairs, in order.
HeaderLists ==
    UNION {[1..n -> [name : HeaderNames, value : HeaderValues]] : n \in 0..MaxHeaders}

\* The test of the forwarding loop.
forwardable(name) ==
    \/ starts_with(to_lowercase(name), "authorization")
    \/ starts_with(to_lowercase(name), "x-")

\* HeaderMap::insert: the value replaces whatever the name had (HeaderName
\* compares case-insensitively: names are kept in lower case).
header_insert(map, name, value) ==
    {h \in map : h.name # to_lowercase(name)}
        \cup {[name |-> to_lowercase(name), value |-> value]}

RECURSIVE forward_loop(_, _)
forward_loop(map, headers) ==
    IF headers = <<>> THEN map
    ELSE LET h == Head(headers)
         IN  forward_loop(IF forwardable(h.name)
                             THEN header_insert(map, h.name, h.value)
                             ELSE map,
                          Tail(headers))

\* The header map forward_to_target sends upstream.
forward_headers(headers) ==
    forward_loop(header_insert({}, "content-type", "application/json"), headers)

InitForward ==
    /\ Constructed
    /\ call \in [fn : {"forward_to_target"}, arg : HeaderLists, ret : {None}]

ForwardToTarget ==
    /\ call.fn = "forward_to_target"
    /\ call.ret = None
    /\ call' = [call EXCEPT !.ret = Some(forward_headers(call.arg))]
    /\ UNCHANGED <<now, cache, pending, mailbox, task, Config, Admin, emitted,
                   calls, answered>>

SpecForward == InitForward /\ [][ForwardToTarget]_vars

\* A name the whitelist admits: Authorization or X-*, in any case.
Whitelisted(name) ==
    \/ to_lowercase(name) = "authorization"
    \/ starts_with(to_lowercase(name), "x-")

\* C15: the names sent upstream are exactly Content-Type plus the inbound
\* names that are Authorization or X-* (case-insensitive), each forwarded
\* header carrying an inbound value; a name that starts with "authorization"
\* and goes on is not forwarded.
C15_HeaderWhitelist ==
    Returned("forward_to_target") =>
        LET sent == call.ret[1]
            inbound == {call.arg[i] : i \in 1..Len(call.arg)}
        IN  /\ {h.name : h \in sent} =
                  {"content-type"} \cup
                  {to_lowercase(h.name) : h \in {x \in inbound : Whitelisted(x.name)}}
            /\ \A h \in sent :
                  \/ h = [name |-> "content-type", value |-> "application/json"]
                  \/ \E x \in inbound :
                        to_lowercase(x.name) = h.name /\ x.value = h.value

\* ----------------------------------------------------------- canonicalizer
\* The members of an object are kept in key order.
KeyOrder ==
    <<"arguments", "command", "content", "name", "params", "path", "query", "url">>

RECURSIVE to_string(_), members_to_string(_, _, _)
\* serde_json::to_string: the compact rendering, as a sequence of tokens.
to_string(v) ==
    CASE v.kind = "null" -> <<"null">>
      [] v.kind = "number" -> <<v.s>>
      [] v.kind = "string" -> <<"\"", v.s, "\"">>
      [] OTHER -> <<"{">> \o members_to_string(v, 1, TRUE) \o <<"}">>

members_to_string(v, i, first) ==
    IF i > Len(KeyOrder) THEN <<>>
    ELSE IF KeyOrder[i] \notin DOMAIN v.fields
        THEN members_to_string(v, i + 1, first)
    ELSE (IF first THEN <<>> ELSE <<",">>)
            \o <<"\"", KeyOrder[i], "\":">>
            \o to_string(v.fields[KeyOrder[i]])
            \o members_to_string(v, i + 1, FALSE)

extract_tool_info(content) ==
    LET params == value_get(content, "params")
    IN  IF params = None THEN None
        ELSE LET name == as_str(value_get(params[1], "name"))
                 args == value_get(params[1], "arguments")
             IN  IF name = None \/ args = None THEN None
                 ELSE Some([name |-> name[1], args |-> args[1]])

format_with_path(action, args) ==
    LET path == as_str(value_get(args, "path"))
    IN  IF path # None THEN <<action, " ", path[1]>> ELSE <<action>>

format_with_field_AnyType(action, field, args) ==
    LET value == value_get(args, field)
    IN  IF value # None THEN <<action, ": ", value[1].s>> ELSE <<action>>

format_with_field(action, field, args) ==
    LET value == as_str(value_get(args, field))
    IN  IF value # None THEN <<action, ": ", value[1]>> ELSE <<action>>

\* The length of the preview of a written content, in bytes.
PreviewBytes == 50

RECURSIVE byte_len(_)
\* str::len: the number of bytes of a text.
byte_len(text) ==
    IF text = <<>> THEN 0 ELSE Head(text) + byte_len(Tail(text))

\* str::is_char_boundary
is_char_boundary(text, n) ==
    \E i \in 0..Len(text) : byte_len(SubSeq(text, 1, i)) = n

\* &s[..n]: the prefix of n bytes; it panics when byte n is inside a
\* codepoint.
slice_to(text, n) ==
    IF is_char_boundary(text, n)
        THEN [panic |-> FALSE,
              str |-> SubSeq(text, 1,
                        CHOOSE i \in 0..Len(text) :
                            byte_len(SubSeq(text, 1, i)) = n)]
        ELSE [panic |-> TRUE, str |-> <<>>]

Text(parts) == [panic |-> FALSE, text |-> parts]
Panicked == [panic |-> TRUE, text |-> <<>>]

format_write_file(args) ==
    LET path == as_str(value_get(args, "path"))
        content == as_str(value_get(args, "content"))
    IN  IF path = None THEN Text(<<"write file with content">>)
        ELSE IF content = None
            THEN Text(<<"write file ", path[1], " with content: ", "data">>)
        ELSE IF byte_len(content[1]) > PreviewBytes
            THEN LET cut == slice_to(content[1], PreviewBytes)
                 IN  IF cut.panic THEN Panicked
                     ELSE Text(<<"write file ", path[1], " with content: ", cut.str>>)
        ELSE Text(<<"write file ", path[1], " with content: ", content[1]>>)

format_tool_request(tool_name, args) ==
    CASE tool_name \in {"read_file", "file_read"} ->
            Text(format_with_path("read file", args))
      [] tool_name \in {"write_file", "file_write"} ->
            format_write_file(args)
      [] tool_name \in {"delete_file", "file_delete"} ->
            Text(format_with_path("delete file", args))
      [] tool_name \in {"execute_command", "run_command", "shell_exec"} ->
            Text(format_with_field("execute command", "command", args))
      [] tool_name \in {"database_query", "sql_query"} ->
            Text(format_with_field("run database query", "query", args))
      [] tool_name \in {"network_request", "http_request"} ->
            Text(format_with_field("make network request to", "url", args))
      [] OTHER ->
            Text(<<"use tool ", tool_name, " with arguments: ">> \o to_string(args))

format_request_for_guard(content) ==
    LET info == extract_tool_info(content)
    IN  IF info = None
            THEN Text(<<"perform action: ">> \o to_string(content))
            ELSE format_tool_request(info[1].name, info[1].args)

\* ---- the requests the canonicalizer is applied to
ToolNames ==
    {"read_file", "file_read", "write_file", "file_write", "delete_file",
     "file_delete", "execute_command", "run_command", "shell_exec",
     "database_query", "sql_query", "network_request", "http_request",
     "custom_tool"}

FieldNames == {"path", "command", "query", "url"}

Ascii(n) == [i \in 1..n |-> 1]

\* Written contents: a run of one-byte codepoints around the preview length,
\* then up to MaxTail codepoints of one to four bytes.
MaxTail == 2
MaxWidth == 4
Tails == UNION {[1..n -> 1..MaxWidth] : n \in 0..MaxTail}
AsciiRuns == {0} \cup ((PreviewBytes - MaxWidth)..(PreviewBytes + 1))
Contents == {Ascii(k) \o tail : k \in AsciiRuns, tail \in Tails}

ArgumentValues ==
    {JNull, JString("ls"), JObject(NoFields)}
      \cup {JObject(f :> JString("v")) : f \in FieldNames}
      \cup {JObject(f :> JNumber) : f \in FieldNames}
      \cup {JObject("content" :> JString(<<1, 2>>)),
            JObject("path" :> JString("v") @@ "content" :> JNumber)}
      \cup {JObject("path" :> JString("v") @@ "content" :> JString(c)) :
                c \in Contents}

NameValues == {JNumber} \cup {JString(n) : n \in ToolNames}

ParamsValues ==
    {JString("v")}
      \cup {JObject("name" :> n) : n \in NameValues}
      \cup {JObject("arguments" :> a) : a \in {JNull, JObject("path" :> JString("v"))}}
      \cup {JObject("name" :> n @@ "arguments" :> a) :
                n \in NameValues, a \in ArgumentValues}

FormatRequests ==
    {JObject(NoFields)} \cup {JObject("params" :> p) : p \in ParamsValues}

InitFormat ==
    /\ Constructed
    /\ call \in [fn : {"format_request_for_guard"}, arg : FormatRequests, ret : {None}]

FormatRequestForGuard ==
    /\ call.fn = "format_request_for_guard"
    /\ call.ret = None
    /\ call' = [call EXCEPT !.ret = Some(format_request_for_guard(call.arg))]
    /\ UNCHANGED <<now, cache, pending, mailbox, task, Config, Admin, emitted,
                   calls, answered>>

SpecFormat == InitFormat /\ [][FormatRequestForGuard]_vars

\* The call at hand is a write_file / file_write request with a string path
\* and a string content.
WriteOfText(request) ==
    LET info == extract_tool_info(request)
    IN  /\ info # None
        /\ info[1].name \in {"write_file", "file_write"}
        /\ as_str(value_get(info[1].args, "path")) # None
        /\ as_str(value_get(info[1].args, "content")) # None

ContentOf(request) ==
    as_str(value_get(extract_tool_info(request)[1].args, "content"))[1]

\* The longest prefix of whole codepoints of a text that has at most n bytes.
LongestPrefix(text, n) ==
    LET fits == {i \in 0..Len(text) : byte_len(SubSeq(text, 1, i)) <= n}
    IN  SubSeq(text, 1, CHOOSE i \in fits : \A j \in fits : j <= i)

\* C16: canonicalizing a write_file / file_write request with a string path
\* and a string content never panics, and the preview in its output is the
\* longest prefix of whole codepoints of the content that fits 50 bytes.
C16_ByteSafeTruncation ==
    (Returned("format_request_for_guard") /\ WriteOfText(call.arg)) =>
        /\ ~call.ret[1].panic
        /\ call.ret[1].text[4] = LongestPrefix(ContentOf(call.arg), PreviewBytes)

\* The alias sets with a one-field template: the names, the action text, what
\* joins the action and the value, and the argument the value comes from.
FieldTemplates ==
    { [names |-> {"read_file", "file_read"},
       action |-> "read file", sep |-> " ", field |-> "path"],
      [names |-> {"delete_file", "file_delete"},
       action |-> "delete file", sep |-> " ", field |-> "path"],
      [names |-> {"execute_command", "run_command", "shell_exec"},
       action |-> "execute command", sep |-> ": ", field |-> "command"],
      [names |-> {"database_query", "sql_query"},
       action |-> "run database query", sep |-> ": ", field |-> "query"],
      [names |-> {"network_request", "http_request"},
       action |-> "make network request to", sep |-> ": ", field |-> "url"] }

FieldTemplateNames == UNION {tp.names : tp \in FieldTemplates}

\* What a one-field template gives for the arguments.
TemplateText(tp, args) ==
    IF as_str(value_get(args, tp.field)) # None
        THEN Text(<<tp.action, tp.sep, as_str(value_get(args, tp.field))[1]>>)
        ELSE Text(<<tp.action>>)

GenericText(name, args) ==
    Text(<<"use tool ", name, " with arguments: ">> \o to_string(args))

\* The call at hand has a tool name and arguments, and has returned.
Dispatched ==
    /\ Returned("format_request_for_guard")
    /\ extract_tool_info(call.arg) # None

\* The names in an alias set give the set's template, and all of them the same
\* output.
TemplatesFollowed ==
    LET info == extract_tool_info(call.arg)[1]
    IN  \A tp \in FieldTemplates :
            info.name \in tp.names =>
                /\ call.ret[1] = TemplateText(tp, info.args)
                /\ \A alias \in tp.names :
                      format_tool_request(alias, info.args) = call.ret[1]

\* C17: a tool name of one of the five one-field alias sets gives the set's
\* template with the field value when that argument is a string and the bare
\* action otherwise, the same for every alias of the set; a name outside
\* those sets and outside {write_file, file_write} gives
\* "use tool <name> with arguments: <json(arguments)>".
C17_Dispatch ==
    Dispatched =>
        LET info == extract_tool_info(call.arg)[1]
        IN  /\ TemplatesFollowed
            /\ info.name \notin (FieldTemplateNames \cup {"write_file", "file_write"})
                  => call.ret[1] = GenericText(info.name, info.args)

C17_Witness ==
    /\ Dispatched
    /\ extract_tool_info(call.arg)[1].name = "shell_exec"
    /\ call.ret[1] = Text(<<"execute command", ": ", "v">>)

\* C17 as first stated: every name outside the five one-field alias sets gives
\* the "use tool" text.
C17_OtherNamesGeneric ==
    Dispatched =>
        LET info == extract_tool_info(call.arg)[1]
        IN  /\ TemplatesFollowed
            /\ info.name \notin FieldTemplateNames
                  => call.ret[1] = GenericText(info.name, info.args)

\* A request without a usable tool call: params is missing, params.name is
\* missing or not a string, or params.arguments is missing or not an object.
Malformed(request) ==
    LET params == value_get(request, "params")
    IN  \/ params = None
        \/ as_str(value_get(params[1], "name")) = None
        \/ value_get(params[1], "arguments") = None
        \/ value_get(params[1], "arguments")[1].kind # "object"

\* C18: a request whose params is missing, whose params.name is missing or
\* not a string, or whose params.arguments is missing or not an object is
\* canonicalized to "perform action: <compact_json(request)>", never to a tool
\* template.
C18_Fallback ==
    (Returned("format_request_for_guard") /\ Malformed(call.arg)) =>
        call.ret[1] = Text(<<"perform action: ">> \o to_string(call.arg))

\* ------------------------------------------------------- response parsing
CategoryNames == {"pi", "tox"}
CategoryValues ==
    {JBool(TRUE), JBool(FALSE), JString("true"), JString("false"), JNum(100)}

\* An optional member of a JSON object.
Member(key, opt) == IF opt = None THEN NoFields ELSE key :> opt[1]

CategoriesMembers ==
    {None, Some(JString("x")), Some(JNull), Some(JBool(TRUE))}
      \cup {Some(JObject(f)) :
              f \in UNION {[S -> CategoryValues] : S \in SUBSET CategoryNames}}

ScoresMembers ==
    {None, Some(JString("x")), Some(JObject("pi" :> JNum(87))),
     Some(JObject("pi" :> JNum(30) @@ "tox" :> JNum(87)))}

BoolMembers == {None, Some(JBool(TRUE)), Some(JBool(FALSE))}

ResultMembers ==
    {None, Some(JString("safe")), Some(JString("UNSAFE")), Some(JString("blocked"))}

DetailMembers ==
    {NoFields, "confidence" :> JNum(92) @@ "reason" :> JString("why")}

\* The 2xx bodies the parser is applied to.
GuardBodies ==
    {JsonBody(JObject(Member("categories", c) @@ Member("category_scores", cs)
                        @@ Member("safe", sf) @@ Member("allowed", al)
                        @@ Member("result", rs) @@ d)) :
        c \in CategoriesMembers, cs \in ScoresMembers, sf \in BoolMembers,
        al \in BoolMembers, rs \in ResultMembers, d \in DetailMembers}
      \cup {JsonBody(v) : v \in {JBool(TRUE), JBool(FALSE), JString("unsafe"),
                                 JNull, JObject("safe" :> JString("no"))}}
      \cup {PlainBody(text) :
              text \in {"ok", "OK", "unsafe", "Unsafe", "deny", "blocked",
                        "approved", "rejected", "???", ""}}

InitParse ==
    /\ Constructed
    /\ call \in [fn : {"parse_guard_response"}, arg : GuardBodies, ret : {None}]

ParseGuardResponse ==
    /\ call.fn = "parse_guard_response"
    /\ call.ret = None
    /\ call' = [call EXCEPT !.ret = Some(parse_response_text(call.arg))]
    /\ UNCHANGED <<now, cache, pending, mailbox, task, Config, Admin, emitted,
                   calls, answered>>

SpecParse == InitParse /\ [][ParseGuardResponse]_vars

\* ---- the forms a body can match
BodyMember(body, key) ==
    IF body.json = None THEN None ELSE value_get(body.json[1], key)

MatchesCategorical(body) == as_object(BodyMember(body, "categories")) # None
MatchesSafe(body) == as_bool(BodyMember(body, "safe")) # None
MatchesAllowed(body) == as_bool(BodyMember(body, "allowed")) # None
MatchesResult(body) == as_str(BodyMember(body, "result")) # None
MatchesBool(body) == body.json # None /\ body.json[1].kind = "bool"
MatchesText(body) == text_allowed(body.text) \/ text_blocked(body.text)

\* The verdict of the earliest form the body matches.
FirstMatch(body) ==
    IF MatchesCategorical(body) THEN categorical_form(body.json[1])
    ELSE IF MatchesSafe(body) THEN safe_form(body.json[1])
    ELSE IF MatchesAllowed(body) THEN allowed_form(body.json[1])
    ELSE IF MatchesResult(body) THEN result_form(body.json[1])
    ELSE IF MatchesBool(body) THEN bool_form(body.json[1].s = "true")
    ELSE IF MatchesText(body) THEN text_form(body.text)
    ELSE unknown_form(body.text)

\* C19: the verdict parsed from a 2xx body is the one of the earliest form
\* the body matches, in the order categorical, safe, allowed, result, bare
\* boolean, plain text, unknown, where the categorical form matches only a
\* body whose categories member is an object.
C19_FirstMatchWins ==
    Returned("parse_guard_response") => call.ret[1] = FirstMatch(call.arg)

\* A category value that counts as a threat: true or "true".
Truthy(v) == v.kind \in {"bool", "string"} /\ v.s = "true"

Flagged(body) ==
    LET categories == as_object(BodyMember(body, "categories"))[1]
    IN  SelectSeq(BodyKeyOrder,
                  LAMBDA c : c \in DOMAIN categories /\ Truthy(categories[c]))

\* C20: the verdict of a categorical body is allowed exactly when no category
\* value is truthy (true or "true"); its reason is "Threats detected: " and
\* the flagged category names, or "No threats detected" when none is flagged.
C20_CategoricalVerdict ==
    (Returned("parse_guard_response") /\ MatchesCategorical(call.arg)) =>
        /\ call.ret[1].allowed = (Flagged(call.arg) = <<>>)
        /\ call.ret[1].reason =
              IF Flagged(call.arg) = <<>>
                  THEN Some("No threats detected")
                  ELSE Some("Threats detected: " \o join(Flagged(call.arg), ", "))

C20_Witness ==
    /\ Returned("parse_guard_response")
    /\ MatchesCategorical(call.arg)
    /\ BodyMember(call.arg, "categories")[1].fields =
          ("pi" :> JString("true") @@ "tox" :> JBool(FALSE))
    /\ ~call.ret[1].allowed
    /\ call.ret[1].reason = Some("Threats detected: pi")

\* The numeric scores of the flagged categories of a categorical body.
FlaggedScores(body) ==
    LET scores == as_object(BodyMember(body, "category_scores"))[1]
        flagged == Flagged(body)
    IN  {scores[flagged[i]].s :
            i \in {j \in 1..Len(flagged) :
                      /\ flagged[j] \in DOMAIN scores
                      /\ scores[flagged[j]].kind = "number"}}

\* C21: the confidence of a categorical verdict is absent when the body has
\* no category_scores object, and otherwise the maximum of the scores of the
\* flagged categories; scores of unflagged categories do not raise it.
C21_CategoricalConfidence ==
    (Returned("parse_guard_response") /\ MatchesCategorical(call.arg)) =>
        /\ as_object(BodyMember(call.arg, "category_scores")) = None
              => call.ret[1].confidence = None
        /\ (/\ as_object(BodyMember(call.arg, "category_scores")) # None
            /\ FlaggedScores(call.arg) # {})
              => \E m \in FlaggedScores(call.arg) :
                    /\ \A x \in FlaggedScores(call.arg) : x <= m
                    /\ call.ret[1].confidence = Some(m)

\* The Guard client's result of the request phase came from a 2xx answer
\* whose shape matched no form.
GuardUnparseable(rec) ==
    /\ rec.pc \in {"done", "upstream_wait"}
    /\ rec.phase = "request"
    /\ rec.res.ok
    /\ rec.res.entry.reason # None
    /\ starts_with(rec.res.entry.reason[1], "Unknown Guard response: ")

\* C22: a 2xx Guard response whose shape cannot be parsed is decided by the
\* fail policy: the service verdict has allowed = fail_open, so it is denied
\* when fail_open = false.
C22_UnparseableFollowsPolicy ==
    \A rec \in Records :
        (GuardUnparseable(rec) /\ rec.kind \in {"rest_validate", "rest_proxy"}) =>
            /\ rec.verdict # None
            /\ rec.verdict[1].allowed = fail_open

\* ------------------------------------------------------------ MCP call_tool
\* CallToolRequestParam: the tool name and the optional arguments, of which
\* call_tool reads the members target and request.
McpToolNames == {"validate", "proxy", "other"}

ToolArguments ==
    {None} \cup
    {Some([target |-> tg, request |-> rq]) :
        tg \in {None, Some(JString("srv")), Some(JNum(7))},
        rq \in {None} \cup {Some(r) : r \in Requests}}

ToolCalls == [name : McpToolNames, arguments : ToolArguments]

invalid_params(message) ==
    Response("mcp_invalid_params", "", -32602, message, FALSE, None, None)

method_not_found ==
    Response("mcp_method_not_found", "", -32601, "", FALSE, None, None)

Rejected(kind, error) ==
    [ok |-> FALSE, kind |-> kind, request |-> None, error |-> error]
Accepted(kind, request) ==
    [ok |-> TRUE, kind |-> kind, request |-> request, error |-> NoResponse]

call_tool_arguments_NoTargetCheck(params) ==
    CASE params.name = "validate" ->
            IF params.arguments = None \/ params.arguments[1].request = None
                THEN Rejected("mcp_validate",
                              invalid_params("Missing 'request' parameter"))
                ELSE Accepted("mcp_validate", params.arguments[1].request)
      [] params.name = "proxy" ->
            IF params.arguments = None
                THEN Rejected("mcp_proxy", invalid_params("Missing arguments"))
            ELSE IF params.arguments[1].request = None
                THEN Rejected("mcp_proxy",
                              invalid_params("Missing 'request' parameter"))
            ELSE Accepted("mcp_proxy", params.arguments[1].request)
      [] OTHER -> Rejected("mcp_validate", method_not_found)

\* call_tool up to its first call of validate_request: what it extracts from
\* the arguments, or the error it returns.
call_tool_arguments(params) ==
    CASE params.name = "validate" ->
            IF params.arguments = None \/ params.arguments[1].request = None
                THEN Rejected("mcp_validate",
                              invalid_params("Missing 'request' parameter"))
                ELSE Accepted("mcp_validate", params.arguments[1].request)
      [] params.name = "proxy" ->
            IF params.arguments = None
                THEN Rejected("mcp_proxy", invalid_params("Missing arguments"))
            ELSE IF as_str(params.arguments[1].target) = None
                THEN Rejected("mcp_proxy",
                              invalid_params("Missing 'target' parameter"))
            ELSE IF params.arguments[1].request = None
                THEN Rejected("mcp_proxy",
                              invalid_params("Missing 'request' parameter"))
            ELSE Accepted("mcp_proxy", params.arguments[1].request)
      [] OTHER -> Rejected("mcp_validate", method_not_found)

\* A tools/call arrives at an idle server task.
CallTool(t, params, tool_ok) ==
    LET got == call_tool_arguments(params)
    IN  /\ \A s \in Tasks : ~Busy(s)
        /\ tool_ok => (got.ok /\ got.kind = "mcp_proxy")
        /\ IF got.ok
              THEN Start(t, got.kind, got.request[1], tool_ok)
              ELSE /\ Move(t, Finish([IdleTask EXCEPT !.kind = got.kind],
                                     got.error, <<>>))
                   /\ UNCHANGED <<call, now, cache, pending, mailbox, Config,
                                  Admin, calls, answered>>

NextMcp ==
    \/ \E t \in Tasks, params \in ToolCalls, tool_ok \in BOOLEAN :
          CallTool(t, params, tool_ok)
    \/ \E t \in Tasks : CacheGet(t)
    \/ \E t \in Tasks : PendingGet(t)
    \/ \E t \in Tasks : Insert(t)
    \/ \E t \in Tasks, outcome \in GuardOutcomes : GuardReturn(t, outcome)
    \/ \E t \in Tasks : Remove(t)
    \/ \E t \in Tasks : Set(t)
    \/ \E t \in Tasks : Send(t)

SpecMcp == InitGateway /\ [][NextMcp]_vars

\* The argument errors of a tools/call.
MissingArguments(params) ==
    \/ params.name = "validate"
         /\ (params.arguments = None \/ params.arguments[1].request = None)
    \/ params.name = "proxy"
         /\ \/ params.arguments = None
            \/ params.arguments[1].target = None
            \/ params.arguments[1].target[1].kind # "string"
            \/ params.arguments[1].request = None

\* C23: a validate call without request, and a proxy call without target,
\* with a non-string target or without request, return the -32602
\* invalid-params error; a call of any other tool returns method-not-found;
\* none of them invokes the Guard, starts a validation or changes the cache.
C23_ArgumentErrors ==
    [][\A t \in Tasks, params \in ToolCalls :
          (CallTool(t, params, FALSE)
             /\ (MissingArguments(params) \/ params.name \notin {"validate", "proxy"}))
          => /\ emitted'.pc = "done"
             /\ emitted'.out.code =
                   IF params.name \in {"validate", "proxy"} THEN -32602 ELSE -32601
             /\ emitted'.verdict = None
             /\ ~Busy(t)'
             /\ cache' = cache /\ pending' = pending /\ calls' = calls]_vars

C23_Witness ==
    /\ emitted.pc = "done"
    /\ emitted.kind = "mcp_proxy"
    /\ emitted.out = invalid_params("Missing 'target' parameter")
    /\ \E k \in Keys : cache[k] # None

\* ------------------------------------------------------------ configuration
MaxSetting == 2

\* ProxyConfig, the fields that validate and with_config read.
ProxyConfigs ==
    [listen_address : {"127.0.0.1:8080", ":", "invalid-address", ""},
     api_key : {"", "test-key"},
     timeout_seconds : 0..MaxSetting,
     max_request_size : 0..MaxSetting,
     cache_ttl_seconds : 0..1,
     config_fail_open : BOOLEAN]

ConfigOk == [ok |-> TRUE, err |-> ""]
ConfigErr(message) == [ok |-> FALSE, err |-> message]

config_validate_SkipSize(config) ==
    IF Len(config.api_key) = 0 THEN ConfigErr("API key cannot be empty")
    ELSE IF config.timeout_seconds = 0
        THEN ConfigErr("Timeout must be greater than 0")
    ELSE IF ~contains(config.listen_address, ":")
        THEN ConfigErr("Invalid listen address format")
    ELSE ConfigOk

\* ProxyConfig::validate
config_validate(config) ==
    IF Len(config.api_key) = 0 THEN ConfigErr("API key cannot be empty")
    ELSE IF config.timeout_seconds = 0
        THEN ConfigErr("Timeout must be greater than 0")
    ELSE IF config.max_request_size = 0
        THEN ConfigErr("Max request size must be greater than 0")
    ELSE IF ~contains(config.listen_address, ":")
        THEN ConfigErr("Invalid listen address format")
    ELSE ConfigOk

\* MCPProxy::with_config: the proxy it constructs, if any.
with_config(config) ==
    IF ~config_validate(config).ok
        THEN [ok |-> FALSE, err |-> config_validate(config).err, proxy |-> None]
        ELSE [ok |-> TRUE, err |-> "",
              proxy |-> Some([config |-> config,
                              javelin_timeout |-> config.timeout_seconds])]

InitConfig ==
    /\ Constructed
    /\ call \in [fn : {"with_config"}, arg : ProxyConfigs, ret : {None}]

WithConfig ==
    /\ call.fn = "with_config"
    /\ call.ret = None
    /\ call' = [call EXCEPT !.ret = Some(with_config(call.arg))]
    /\ UNCHANGED <<now, cache, pending, mailbox, task, Config, Admin, emitted,
                   calls, answered>>

SpecConfig == InitConfig /\ [][WithConfig]_vars

HasColon(text) == \E i \in 1..Len(text) : SubSeq(text, i, i) = ":"

\* C24: a configuration is rejected exactly when its API key is empty, its
\* Guard timeout is 0, its max request size is 0 or its listen address has
\* no ':'; with_config builds a proxy for every other configuration and none
\* for a rejected one.
C24_ConfigValidation ==
    Returned("with_config") =>
        LET rejected == \/ call.arg.api_key = ""
                        \/ call.arg.timeout_seconds = 0
                        \/ call.arg.max_request_size = 0
                        \/ ~HasColon(call.arg.listen_address)
        IN  /\ config_validate(call.arg).ok = ~rejected
            /\ call.ret[1].ok = ~rejected
            /\ rejected => call.ret[1].proxy = None
            /\ ~rejected => /\ call.ret[1].proxy # None
                            /\ call.ret[1].proxy[1].config = call.arg

C24_Witness ==
    /\ Returned("with_config")
    /\ call.arg.api_key = "test-key"
    /\ call.arg.timeout_seconds = 1
    /\ call.arg.max_request_size = 0
    /\ call.arg.listen_address = "127.0.0.1:8080"
    /\ ~call.ret[1].ok
    /\ call.ret[1].proxy = None

\* Task t inserts a key that is not in the cache while the cache is full.
InsertIntoFull(t) ==
    /\ Set(t)
    /\ KeyOf(t) \notin Present(cache)
    /\ Cardinality(Present(cache)) = max_entries

\* C25: the cache never holds more than max_entries entries, and an insertion
\* into a full cache evicts the least-recently-used entry: the entry that
\* goes is an older one, never the one just inserted.
C25_CapacityCap ==
    [][/\ Cardinality(Present(cache')) <= max_entries
       /\ \A t \in Tasks : InsertIntoFull(t) => KeyOf(t) \in Present(cache')]_vars

\* ------------------------------------------------------------- coalescing
\* The tasks whose Guard call for key k is in flight.
InFlight(k) == {t \in Tasks : task[t].pc = "guard_wait" /\ KeyOf(t) = k}

\* C26: with deduplication enabled at most one Guard call is in flight for
\* any cache key, whatever the interleaving of the lookup of the pending slot
\* and its insertion.
C26_OneCallInFlight ==
    enable_deduplication => \A k \in Keys : Cardinality(InFlight(k)) <= 1

\* Task t is at an operation that needs the write lock of its key's shard.
NeedsWriteLock(t) == task[t].pc \in {"insert", "remove"}

\* C27: no task holds a guard of the pending-slots map while it is suspended:
\* a subscriber that awaits the broadcast for a key holds no Ref of it, so the
\* publisher's removal of the slot, an insert for the key and clear() are
\* never blocked by a waiting subscriber.
C27_NoLockAcrossSuspension ==
    /\ \A k \in Keys : ~RefHeld(k)
    /\ \A t \in Tasks : NeedsWriteLock(t) => ~RefHeld(KeyOf(t))
    /\ clearPc = "invalidated" => \A k \in Keys : ~RefHeld(k)

\* What task t does next in get_or_compute against the Guard that answers
\* {"safe": true}.
SharingStep(t) ==
    \/ CacheGet(t)
    \/ PendingGet(t)
    \/ Insert(t)
    \/ \E outcome \in SafeOutcomes : GuardReturn(t, outcome)
    \/ Remove(t)
    \/ Set(t)
    \/ Send(t)

\* The runtime polls every task that can make progress, and the Guard answers.
SpecSharingFair ==
    SpecSharing /\ \A t \in Tasks : WF_vars(SharingStep(t))

\* C28: with deduplication enabled and a Guard that answers safe, every one
\* of the concurrent validate calls eventually returns, and returns allowed.
C28_CoalescedCallsReturn ==
    /\ \A t \in Tasks : Busy(t) ~> ~Busy(t)
    /\ [](emitted.pc = "done" =>
            emitted.verdict # None /\ emitted.verdict[1].allowed)

\* What task t does next in get_or_compute, whatever the Guard does.
ComputeStep(t) ==
    \/ CacheGet(t)
    \/ PendingGet(t)
    \/ Insert(t)
    \/ \E outcome \in GuardOutcomes : GuardReturn(t, outcome)
    \/ Remove(t)
    \/ Set(t)
    \/ Send(t)

\* Identical concurrent requests with deduplication, Guard calls that may
\* fail and clients that may disconnect, within one time_to_live.
NextDrop ==
    \/ \E t \in Tasks, req \in BurstRequests :
          Start(t, "rest_validate", req, FALSE)
    \/ \E t \in Tasks : ComputeStep(t)
    \/ \E t \in Tasks : Cancel(t)

SpecDrop ==
    /\ InitGateway
    /\ [][NextDrop]_vars
    /\ \A t \in Tasks : WF_vars(ComputeStep(t))

\* Task t waits for a broadcast that its publisher will not make: the
\* publisher's Guard call failed, or the publisher was dropped.
Orphaned(t) ==
    /\ task[t].pc = "recv"
    /\ LET c == task[t].sub
       IN  /\ task[c].pc \notin {"guard_wait", "set", "send"}
           /\ task[c].pc = "remove" => ~task[c].res.ok

\* C29: a subscriber whose publisher ends without publishing (its Guard call
\* fails, or its task is dropped) eventually stops waiting for the broadcast.
C29_OrphanedSubscriberMovesOn ==
    \A t \in Tasks : Orphaned(t) ~> (task[t].pc # "recv")

\* The client of publisher t disconnects while t's Guard call is in flight.
PublisherCancelled(t) ==
    /\ enable_deduplication
    /\ task[t].pc = "guard_wait"
    /\ pending[KeyOf(t)] = t
    /\ Cancel(t)

\* C30: when the serving task of a publisher is cancelled while its Guard
\* call is in flight, the call is not abandoned: it stays in flight (to be
\* cached and to have its slot removed when it completes), and its slot still
\* belongs to a running call.
C30_CancelledCallCompletes ==
    [][\A t \in Tasks :
          PublisherCancelled(t) =>
              /\ t \in InFlight(KeyOf(t))'
              /\ pending'[KeyOf(t)] = t]_vars

\* ---------------------------------------------------------- slot ownership
\* A get_or_compute step changes the slot of key k (clear() is not one).
SlotChanged(k) == clearPc' = clearPc /\ pending'[k] # pending[k]

\* C31: a pending slot is removed only by the task that created it: no
\* get_or_compute call overwrites a slot that another task created for the
\* same key, and no call removes another task's slot.
C31_SlotOwnership ==
    [][\A k \in Keys :
          (pending[k] # NoTask /\ SlotChanged(k)) =>
              /\ pending'[k] = NoTask
              /\ task[pending[k]].pc = "remove"
              /\ task'[pending[k]].pc # "remove"]_vars

\* ValidationCache::stats: entries and pending_requests.
stats ==
    [entries |-> Cardinality(Present(cache)),
     pending_requests |-> Cardinality({k \in Keys : pending[k] # NoTask})]

\* Some get_or_compute call for key k has neither returned nor been dropped.
InProgress(k) == \E t \in Tasks : Busy(t) /\ KeyOf(t) = k

\* C32: pending slots never outlive their publisher: when no get_or_compute
\* call for key k is in progress the map has no slot for k, and an idle
\* service reports pending_requests = 0.
C32_NoSlotWithoutPublisher ==
    /\ \A k \in Keys : ~InProgress(k) => pending[k] = NoTask
    /\ (\A t \in Tasks : ~Busy(t)) => stats.pending_requests = 0

\* --------------------------------------------------------------- broadcast
\* Task t returns from receiver.recv() with Ok: it was waiting, it has been
\* sent an entry, and its handler hands the response out in this step.
Received(t) ==
    /\ task[t].pc = "recv"
    /\ mailbox[t] # None
    /\ task'[t].pc # "recv"
    /\ emitted'.pc = "done"

\* C33: a subscriber that receives a broadcast for key K returns the verdict
\* its publisher computed (same allowed, reason and confidence), has been
\* sent one copy, and finds that verdict in the cache when it returns.
C33_SubscriberGetsPublishedVerdict ==
    [][\A t \in Tasks :
          Received(t) =>
              LET sent == mailbox[t][1]
                  k == KeyOf(t)
              IN  /\ emitted'.res = Ok(sent)
                  /\ mailbox'[t] = None
                  /\ cache[k] # None /\ cache[k][1].entry = sent]_vars

\* No broadcast reaches a subscriber: the publisher's remove comes before its
\* send and waits for the subscriber's Ref, which the subscriber gives up
\* only by leaving the wait.
NoBroadcastDelivered ==
    /\ \A t \in Tasks : mailbox[t] = None
    /\ \A c \in Tasks :
          task[c].pc \in {"set", "send"} => Receivers(c, KeyOf(c)) = {}

\* ------------------------------------------------- without deduplication
\* The places of get_or_compute that belong to its deduplicating branch.
DedupPoints == {"pending_get", "recv", "insert", "remove", "send"}

\* Task t finds no fresh entry in this step: ValidationCache::get returns None.
Misses(t) ==
    \/ task[t].pc = "cache_get" /\ cache[KeyOf(t)] = None /\ CacheGet(t)
    \/ task[t].pc = "invalidate" /\ Invalidate(t)

\* Task t's compute_fn has returned Ok and its result is stored in this step.
StoresResult(t) == task[t].pc = "set" /\ task[t].res.ok /\ Set(t)

\* C34: with deduplication disabled get_or_compute never creates or consults
\* a pending slot and the map stays empty; every cache miss invokes the Guard
\* (each of N concurrent identical misses makes its own call), and each
\* successful result is inserted into the cache and returned.
C34_NoDedupNoSlots ==
    /\ [](~enable_deduplication =>
            /\ \A k \in Keys : pending[k] = NoTask
            /\ \A t \in Tasks : task[t].pc \notin DedupPoints /\ mailbox[t] = None)
    /\ [][~enable_deduplication =>
            \A t \in Tasks :
               /\ Misses(t) =>
                     /\ t \in InFlight(KeyOf(t))'
                     /\ calls'[KeyOf(t)] = Invoked(KeyOf(t))[KeyOf(t)]
               /\ StoresResult(t) =>
                     /\ cache'[KeyOf(t)] # None
                     /\ cache'[KeyOf(t)][1].entry = task[t].res.entry
                     /\ emitted'.res = task[t].res]_vars

\* Two identical misses have each invoked the Guard; one result is stored
\* while the other call is still in flight.
C34_Witness ==
    /\ ~enable_deduplication
    /\ \E k \in Keys :
          /\ calls[k] = 2
          /\ cache[k] # None
          /\ InFlight(k) # {}

\* ------------------------------------------------------------------- clear
\* Identical requests against a Guard that answers, and one administrator
\* who calls clear(); the handlers' steps from the lookup to the start of
\* the Guard call are taken while no clear() is under way, so that every
\* Guard call starts either before clear() is called or after it has
\* returned.
NextClear ==
    \/ \E t \in Tasks, req \in BurstRequests :
          clearPc = "idle" /\ Start(t, "rest_validate", req, FALSE)
    \/ \E t \in Tasks : clearPc = "idle" /\ CacheGet(t)
    \/ \E t \in Tasks : clearPc = "idle" /\ PendingGet(t)
    \/ \E t \in Tasks : clearPc = "idle" /\ Insert(t)
    \/ \E t \in Tasks, outcome \in SafeOutcomes : GuardReturn(t, outcome)
    \/ \E t \in Tasks : Remove(t)
    \/ \E t \in Tasks : Set(t)
    \/ \E t \in Tasks : Send(t)
    \/ ClearInvalidate
    \/ ClearPending

SpecClear == InitGateway /\ [][NextClear]_vars

\* Task t's lookup is a cache hit in this step.
Hits(t) ==
    /\ task[t].pc = "cache_get"
    /\ cache[KeyOf(t)] # None
    /\ Fresh(cache[KeyOf(t)][1].entry, now)
    /\ CacheGet(t)

\* C35: after clear() has returned, a cache hit serves only a verdict of a
\* Guard call that started after the clear: no hit happens for a key for
\* which no Guard call has started since.
C35_ClearInvalidates ==
    [][\A t \in Tasks :
          (clears > 0 /\ clearPc = "idle" /\ Hits(t)) =>
              calls[KeyOf(t)] > 0]_vars

\* ------------------------------------------------------ fail-open verdicts
\* The verdict that validate_request_uncached makes up when the Guard
\* answers with a non-2xx status.
GuardUnavailable(entry) == entry.reason = Some("Guard API error")

\* C36: a verdict that exists only because the Guard answered with a non-2xx
\* status is never stored: the cache holds no such entry, so a later
\* identical request cannot be admitted from it and invokes the Guard again.
C36_FailOpenNotCached ==
    \A k \in Keys : cache[k] # None => ~GuardUnavailable(cache[k][1].entry)

\* ------------------------------------------------------- "unsafe" answers
\* The body is read in result form and its result is "unsafe" in some
\* letter case.
UnsafeResult(body) ==
    /\ BodyMember(body, "categories") = None
    /\ ~MatchesSafe(body)
    /\ ~MatchesAllowed(body)
    /\ MatchesResult(body)
    /\ to_lowercase(as_str(BodyMember(body, "result"))[1]) = "unsafe"

\* The body is the plain text unsafe, or the JSON string "unsafe", in some
\* letter case.
UnsafeText(body) ==
    /\ body.json = None \/ body.json[1].kind = "string"
    /\ to_lowercase(body.text) \in {"unsafe", "\"unsafe\""}

\* C37: a Guard answer of "unsafe" is never turned into an admit: a body in
\* result form with result "unsafe" (any letter case), and a plain-text or
\* JSON-string body that says only "unsafe", parse to allowed = false.
C37_UnsafeIsDenied ==
    Returned("parse_guard_response") =>
        ((UnsafeResult(call.arg) \/ UnsafeText(call.arg))
            => ~call.ret[1].allowed)

\* ------------------------------------------------------ MCP and REST agree
ValidateKinds == {"rest_validate", "mcp_validate"}

\* The same call arriving on the other of the two validate paths.
OtherPath(tk) ==
    [tk EXCEPT !.kind = IF @ = "rest_validate" THEN "mcp_validate"
                        ELSE "rest_validate"]

\* Task t, on one of the two validate paths, hands its response out in this
\* step.
Answers(t) ==
    /\ task[t].kind \in ValidateKinds
    /\ Busy(t)
    /\ task'[t] = IdleTask
    /\ emitted'.pc = "done"

\* C38: the MCP `validate` tool and POST /validate agree: for what
\* get_or_compute returns for the request (from the shared cache or from the
\* Guard: allow, block, non-2xx, transport failure) and the same fail_open,
\* the `valid` of the one path is the `valid` the other path gives; and a
\* cache hit hands either path the entry of the one cache.
C38_McpRestAgree ==
    [][\A t \in Tasks :
          /\ Answers(t) =>
                emitted'.out.allowed =
                   Continue(OtherPath(task[t]), emitted'.res, fail_open).out.allowed
          /\ (task[t].kind \in ValidateKinds /\ Hits(t)) =>
                emitted'.res = Ok(cache[KeyOf(t)][1].entry)]_vars

\* The MCP tool has answered valid: true for a request whose Guard call
\* failed in transport, under fail_open.
C38_Witness ==
    /\ fail_open
    /\ emitted.kind = "mcp_validate"
    /\ emitted.pc = "done"
    /\ ~emitted.res.ok
    /\ emitted.out.type = "mcp_validate"
    /\ emitted.out.allowed

\* ------------------------------------------------------------ key isolation
\* A Guard whose answer tells the requests apart: it finds the request with
\* id 1 safe and the request without id unsafe.
GuardAnswer(value) ==
    IF value.id = "1" THEN [status |-> "2xx", body |-> "safe_true"]
    ELSE [status |-> "2xx", body |-> "safe_false"]

\* Concurrent POST /validate requests with two cache keys against that
\* Guard, with and without deduplication, with time and clear().
NextKeys ==
    \/ \E t \in Tasks, req \in Requests : Start(t, "rest_validate", req, FALSE)
    \/ \E t \in Tasks : CacheGet(t)
    \/ \E t \in Tasks : Invalidate(t)
    \/ \E t \in Tasks : PendingGet(t)
    \/ \E t \in Tasks : Insert(t)
    \/ \E t \in Tasks : GuardReturn(t, GuardAnswer(task[t].val))
    \/ \E t \in Tasks : Remove(t)
    \/ \E t \in Tasks : Set(t)
    \/ \E t \in Tasks : Send(t)
    \/ ClearInvalidate
    \/ ClearPending
    \/ Tick

SpecKeys == Init /\ [][NextKeys]_vars

\* What the Guard says of the requests that have cache key k.
GuardAllows(k) ==
    {validate_request_uncached(GuardAnswer(r), now).entry.allowed :
        r \in {v \in Requests : generate_cache_key(v) = k}}

\* C39: no verdict crosses cache keys: every verdict that get_or_compute
\* returns for a request (from the cache, from a broadcast or from its own
\* Guard call), every entry of the cache and every entry sent to a
\* subscriber has the allowed value of a Guard call made for a request with
\* that cache key.
C39_KeyIsolation ==
    /\ (emitted.pc = "done" /\ emitted.res.ok) =>
          /\ emitted.res.entry.allowed
                \in GuardAllows(generate_cache_key(emitted.val))
          /\ emitted.out.allowed = emitted.res.entry.allowed
    /\ \A k \in Keys :
          cache[k] # None => cache[k][1].entry.allowed \in GuardAllows(k)
    /\ \A t \in Tasks :
          /\ task[t].res.ok => task[t].res.entry.allowed \in GuardAllows(KeyOf(t))
          /\ mailbox[t] # None => mailbox[t][1].allowed \in GuardAllows(KeyOf(t))

\* A request is answered "not allowed" while the cache holds the "allowed"
\* verdict of the request with the other key.
C39_Witness ==
    /\ emitted.pc = "done"
    /\ emitted.res.ok
    /\ ~emitted.out.allowed
    /\ \E k \in Keys :
          /\ k # generate_cache_key(emitted.val)
          /\ cache[k] # None
          /\ cache[k][1].entry.allowed

====
